---- MODULE Spec2Model ----
(***************************************************************************)
(* Model of fast-mcp-pandoc: the worker pool (worker.py), the request      *)
(* validation (models.py) and the three request surfaces of server.py:     *)
(* POST /convert, GET /convert/stream and GET /sse?tool=convert-contents.  *)
(*                                                                         *)
(* Execution contexts.  The handlers, the generators, the done-callbacks   *)
(* and shutdown() run on the single event-loop thread; between two         *)
(* suspension points (await / yield) such code is one atomic action.       *)
(* _process_conversion runs on a ThreadPoolExecutor thread, concurrently   *)
(* with the event loop: every read it makes of active_connections is a     *)
(* step of its own.                                                        *)
(***************************************************************************)
EXTENDS Integers, Sequences, FiniteSets, TLC

\* ---------------------------------------------------------------- bounds
NumTasks == 2          \* requests that may be accepted in one behaviour
max_workers == 1       \* WorkerPool(max_workers): slots of the executor

TaskIds == 1..NumTasks

\* ------------------------------------------------------ program constants
DrainTimeout == 15         \* wait_for(queue.get(), timeout=15.0)
InactivityCeiling == 300   \* if heartbeat_timer >= 300
McpDrainTimeout == 60      \* mcp: wait_for(queue.get(), timeout=60.0)

None == "<None>"

\* ------------------------------------------------------------- requests
\* ConversionRequest: the fields the worker reads.
S2S == [contents |-> "# Hi", input_file |-> None, output_file |-> None,
        output_format |-> "html"]
S2F == [contents |-> "# Hi", input_file |-> None, output_file |-> "out/doc.pdf",
        output_format |-> "pdf"]
F2S == [contents |-> None, input_file |-> "missing.md", output_file |-> None,
        output_format |-> "html"]
F2F == [contents |-> None, input_file |-> "in.md", output_file |-> "out/doc.html",
        output_format |-> "html"]
NoOut == [contents |-> "# Hi", input_file |-> None, output_file |-> None,
          output_format |-> "pdf"]
Neither == [contents |-> None, input_file |-> None, output_file |-> None,
            output_format |-> "html"]
EmptyToFile == [contents |-> "", input_file |-> None,
                output_file |-> "out/doc.html", output_format |-> "html"]

\* Python truthiness of an Optional[str].
Truthy(v) == v # None /\ v # ""

\* os.path.exists on the input paths of the model's file system.
path_exists(p) == p = "in.md"

\* models.py validate_output_file
advanced_formats == {"pdf", "docx", "rst", "latex", "epub"}

\* Variant of validate_output_file: the validator without always=True, which
\* is not called for an output_file that was left out.
validate_output_file_if_given(req) ==
    ~(req.output_format \in advanced_formats /\ req.output_file = "")

\* @validator("output_file", always=True): called for every request, with
\* output_format already in `values`; TRUE when it does not raise.
validate_output_file(req) ==
    ~(req.output_format \in advanced_formats /\ ~Truthy(req.output_file))

\* The fields of ConversionRequest in declaration order, which is the order
\* in which they are validated.
FieldOrder ==
    <<"contents", "input_file", "input_format", "output_format", "output_file">>

\* The keys of `values` when the validator of field f runs: the fields
\* validated before f.
ValuesKeys(f) ==
    {FieldOrder[i] : i \in {j \in 1..Len(FieldOrder) :
                               \E k \in (j+1)..Len(FieldOrder) : FieldOrder[k] = f}}

\* @validator("contents", "input_file") run for field f; TRUE when it does
\* not raise.  It raises only if both keys are in `values` and both are None.
validate_content_sources(req, f) ==
    ~(/\ "contents" \in ValuesKeys(f) /\ req.contents = None
      /\ "input_file" \in ValuesKeys(f) /\ req.input_file = None)

\* ConversionRequest(...) does not raise a ValidationError.
ValidRequest(req) ==
    /\ \A f \in {"contents", "input_file"} : validate_content_sources(req, f)
    /\ validate_output_file(req)

\* worker.py: the if/elif chain that selects the conversion case.
Mode(req) ==
    IF Truthy(req.input_file) /\ Truthy(req.output_file) THEN "file_to_file"
    ELSE IF Truthy(req.input_file) THEN "file_to_string"
    ELSE IF Truthy(req.contents) /\ Truthy(req.output_file) THEN "string_to_file"
    ELSE "string_to_string"

\* ------------------------------------------------------------- messages
\* A message is a sequence of strings (the pieces of an f-string).
EngineOutput == <<"<h1>Hi</h1>">>
EmptyOutput == <<"">>
SavedMessage(req) ==
    <<"Content successfully converted and saved to: ", req.output_file>>

\* The value of `result` after a successful engine call.
ResultOf(req) ==
    IF Mode(req) \in {"file_to_file", "string_to_file"} THEN SavedMessage(req)
    ELSE IF Truthy(req.input_file) \/ Truthy(req.contents) THEN EngineOutput
    ELSE EmptyOutput

ConvertingMessage(req) ==
    IF Truthy(req.input_file)
    THEN <<"Converting ", req.input_file, " to ", req.output_format>>
    ELSE <<"Converting content to ", req.output_format>>

\* The message _process_conversion passes with the terminal 100 callback.
CompleteMessage(req, result) == <<"Conversion complete">>

\* The message argument of progress_callback(task_id, p, ...).
Message(req, p, exc, result) ==
    CASE p = 0   -> <<"Starting conversion process">>
      [] p = 25  -> <<"Preparing document for conversion">>
      [] p = 50  -> ConvertingMessage(req)
      [] p = 75  -> <<"Finalizing conversion">>
      [] p = 100 -> CompleteMessage(req, result)
      [] p = -1  -> <<"Error: ">> \o exc

\* Variant of AfterCallback: the 25 callback is left out.
AfterCallbackSkips25(p) ==
    CASE p = 0   -> [pc |-> "prepare", pct |-> 0]
      [] p = 25  -> [pc |-> "prepare", pct |-> 25]
      [] p = 50  -> [pc |-> "engine", pct |-> 50]
      [] p = 75  -> [pc |-> "cb", pct |-> 100]
      [] p = 100 -> [pc |-> "done", pct |-> 100]
      [] p = -1  -> [pc |-> "done", pct |-> -1]

\* The statement that follows a callback that returned normally.
AfterCallback(p) ==
    CASE p = 0   -> [pc |-> "cb", pct |-> 25]
      [] p = 25  -> [pc |-> "prepare", pct |-> 25]
      [] p = 50  -> [pc |-> "engine", pct |-> 50]
      [] p = 75  -> [pc |-> "cb", pct |-> 100]
      [] p = 100 -> [pc |-> "done", pct |-> 100]
      [] p = -1  -> [pc |-> "done", pct |-> -1]

\* --------------------------------------------------------- stream events
\* stream_conversion.progress_callback: event_data for (percentage, message).
EventData(p, m) ==
    IF p = 100
    THEN [event |-> "complete", message |-> <<"Conversion complete">>, result |-> m]
    ELSE IF p = -1
    THEN [event |-> "error", message |-> <<"Error during conversion: ">> \o m,
          error |-> m]
    ELSE [event |-> "progress", percentage |-> p, message |-> m]

InitialEvent ==
    [event |-> "progress", percentage |-> 0, message |-> <<"Starting conversion...">>]
HeartbeatEvent == [event |-> "heartbeat"]
TimeoutEvent ==
    [event |-> "error",
     message |-> <<"Conversion timed out after 5 minutes of inactivity">>,
     error |-> <<"timeout">>]
ExceptionEvent(e) ==
    [event |-> "error", message |-> <<"Error during conversion: ">> \o e, error |-> e]

IsTerminal(e) == e.event \in {"complete", "error"}

\* mcp_convert_generator.progress_callback: the MCPEvent for (percentage, message).
McpEventData(p, m) ==
    IF p = 100 THEN [status |-> "complete", output |-> m]
    ELSE IF p = -1 THEN [status |-> "error", error |-> m]
    ELSE [status |-> IF p > 0 THEN "running" ELSE "created",
          output |-> [percentage |-> p, message |-> m]]

McpInitialEvent ==
    [status |-> "created",
     output |-> [percentage |-> 0, message |-> <<"Starting conversion">>]]
McpTimeoutEvent ==
    [status |-> "error", error |-> <<"Conversion timed out after 60 seconds">>]
McpExceptionEvent(e) == [status |-> "error", error |-> e]

McpIsTerminal(e) == e.status \in {"complete", "error"}

\* asyncio.get_event_loop() as seen from a thread: only the thread that runs
\* the server has an event loop; a ThreadPoolExecutor thread has none and the
\* call raises RuntimeError there.
get_event_loop(thread) == IF thread = "MainThread" THEN "loop" ELSE "RuntimeError"

\* The thread progress_callback is invoked on: _process_conversion is run by
\* loop.run_in_executor on a thread of the pool.
CallbackThread == "ThreadPoolExecutor"

\* ------------------------------------------------------------------ state
VARIABLES
    surface,             \* task id -> endpoint that created it ("none": id unused)
    request,             \* task id -> its ConversionRequest
    active_connections,  \* server.active_connections: the registered task ids
    queue,               \* task id -> content of the asyncio.Queue of its stream
    stream,              \* task id -> position and locals of its generator
    result_future,       \* task id -> convert_contents.result_future
    http,                \* task id -> POST /convert handler: position, response
    tasks,               \* WorkerPool.tasks: the ids holding a future
    future,              \* task id -> state of the future run_in_executor returned
    executor,            \* ThreadPoolExecutor: work queue, _shutdown
    worker,              \* task id -> position and locals of _process_conversion
                         \*   (cb_exc: what its latest callback call raised)
    calls                \* task id -> the progress_callback invocations made

vars == <<surface, request, active_connections, queue, stream, result_future,
          http, tasks, future, executor, worker, calls>>

serverVars == <<active_connections, queue, stream, result_future, http>>
poolVars == <<tasks, future, executor>>

IdleWorker ==
    [pc |-> "idle", task_id |-> 0, pct |-> 0, cb |-> "call", cb_exc |-> <<>>,
     exc |-> <<>>, result |-> <<>>, engine_calls |-> 0, temp |-> FALSE,
     outcome |-> "none"]

IdleStream ==
    [pc |-> "none", outcome |-> "none", heartbeat_timer |-> 0, elapsed |-> 0,
     emitted |-> <<>>]

Init ==
    /\ surface = [t \in TaskIds |-> "none"]
    /\ request = [t \in TaskIds |-> S2S]
    /\ active_connections = {}
    /\ queue = [t \in TaskIds |-> <<>>]
    /\ stream = [t \in TaskIds |-> IdleStream]
    /\ result_future = [t \in TaskIds |-> [state |-> "none", value |-> <<>>]]
    /\ http = [t \in TaskIds |-> [pc |-> "none", status |-> 0, body |-> <<>>]]
    /\ tasks = {}
    /\ future = [t \in TaskIds |-> "none"]
    /\ executor = [max_workers |-> max_workers, work_queue |-> <<>>,
                   shutdown |-> FALSE, waiting |-> FALSE]
    /\ worker = [t \in TaskIds |-> IdleWorker]
    /\ calls = [t \in TaskIds |-> <<>>]

\* uuid.uuid4(): the next unused id.
FreshId(t) ==
    /\ surface[t] = "none"
    /\ \A u \in TaskIds : u < t => surface[u] # "none"

\* The bodies of _process_conversion that are executing.
Executing == {t \in TaskIds : worker[t].pc \in {"cb", "prepare", "engine"}}

\* ------------------------------------------------------------ WorkerPool
\* Variant of SubmitRaises: a shut-down executor still takes work.
SubmitNeverRaises == FALSE

\* submit_task: run_in_executor raises once the executor is shut down.
SubmitRaises == executor.shutdown

\* Variant of submit_task: the body is entered on the caller's thread.
submit_task_inline(t, id) ==
    /\ executor' = executor
    /\ tasks' = tasks \cup {id}
    /\ future' = [future EXCEPT ![t] = "pending"]
    /\ worker' = [worker EXCEPT ![t] =
                    [@ EXCEPT !.pc = "cb", !.task_id = id, !.pct = 0, !.cb = "call"]]

\* submit_task(task) for the task t made with task_id = id: the work item
\* is queued and the future stored under the id (self.tasks[task.task_id] =
\* future; WorkerPool.tasks is modelled by its key set).
submit_task(t, id) ==
    /\ executor' = [executor EXCEPT !.work_queue = Append(@, t)]
    /\ tasks' = tasks \cup {id}
    /\ future' = [future EXCEPT ![t] = "pending"]
    /\ worker' = [worker EXCEPT ![t] = [@ EXCEPT !.pc = "queued", !.task_id = id]]

\* The event-loop thread is free to run handlers, generators and callbacks:
\* it is not inside executor.shutdown(wait=True).
LoopRuns == ~executor.waiting

\* Variant of SlotFree: a thread whose work item raised is lost.
SlotFreeUnlessRaised ==
    Cardinality({t \in TaskIds :
                   worker[t].pc \in {"taken", "cb", "prepare", "engine"}
                      \/ worker[t].outcome = "raised"})
       < executor.max_workers

\* Variant of SlotFree: the executor starts a thread for every work item.
SlotAlwaysFree == TRUE

\* The tasks a pool thread is occupied with: it has taken the work item and
\* is about to enter the body, or it executes the body.
Busy == Executing \cup {t \in TaskIds : worker[t].pc = "taken"}

\* A pool thread may take the next work item.
SlotFree == Cardinality(Busy) < executor.max_workers

\* Variant of StartTask: the executor hands out the newest work item.
StartTaskNewest(t) ==
    /\ executor.work_queue # <<>>
    /\ executor.work_queue[Len(executor.work_queue)] = t
    /\ SlotFree
    /\ executor' = [executor EXCEPT
                      !.work_queue = SubSeq(@, 1, Len(@) - 1)]
    /\ worker' = [worker EXCEPT ![t].pc = "taken"]
    /\ UNCHANGED <<surface, request, serverVars, tasks, future, calls>>

\* Variant of StartTask: a work item whose future was cancelled is dropped
\* without its body being run.
StartTaskDropsCancelled(t) ==
    /\ executor.work_queue # <<>>
    /\ Head(executor.work_queue) = t
    /\ SlotFree
    /\ executor' = [executor EXCEPT !.work_queue = Tail(@)]
    /\ worker' = [worker EXCEPT ![t].pc =
                    IF future[t] = "cancelled" THEN "done" ELSE "taken"]
    /\ UNCHANGED <<surface, request, serverVars, tasks, future, calls>>

\* A free thread of the executor takes the oldest work item.  The executor
\* looks at its own concurrent future only: future.cancel() in shutdown()
\* cancels the asyncio future that wraps it, and the cancellation is passed
\* on by a callback of the event loop, which is blocked inside
\* executor.shutdown(wait=True) until the work queue has been run empty.
StartTask(t) ==
    /\ executor.work_queue # <<>>
    /\ Head(executor.work_queue) = t
    /\ SlotFree
    /\ executor' = [executor EXCEPT !.work_queue = Tail(@)]
    /\ worker' = [worker EXCEPT ![t].pc = "taken"]
    /\ UNCHANGED <<surface, request, serverVars, tasks, future, calls>>

\* The thread that took the work item calls _process_conversion:
\* progress_callback(task_id, 0, ...) is next.  Threads that took their
\* items one after the other reach this call in any order.
EnterBody(t) ==
    /\ worker[t].pc = "taken"
    /\ worker' = [worker EXCEPT ![t] = [@ EXCEPT !.pc = "cb", !.pct = 0, !.cb = "call"]]
    /\ UNCHANGED <<surface, request, serverVars, poolVars, calls>>

\* shutdown(), up to the point where executor.shutdown(wait=True) blocks the
\* event-loop thread: every (asyncio) future of WorkerPool.tasks that is not
\* done is cancelled and the executor stops accepting work.
Shutdown ==
    /\ LoopRuns /\ ~executor.shutdown
    /\ future' = [t \in TaskIds |->
                    IF worker[t].task_id \in tasks /\ future[t] = "pending"
                    THEN "cancelled"
                    ELSE future[t]]
    /\ executor' = [executor EXCEPT !.shutdown = TRUE, !.waiting = TRUE]
    /\ UNCHANGED <<surface, request, serverVars, tasks, worker, calls>>

\* Variant of ShutdownReturns: executor.shutdown(wait=False).
ShutdownReturnsAtOnce ==
    /\ executor.waiting
    /\ executor' = [executor EXCEPT !.waiting = FALSE]
    /\ UNCHANGED <<surface, request, serverVars, tasks, future, worker, calls>>

\* executor.shutdown(wait=True) returns: the pool threads have exited, which
\* they do once the work queue is empty and no body is executing.
ShutdownReturns ==
    /\ executor.waiting
    /\ executor.work_queue = <<>> /\ Busy = {}
    /\ executor' = [executor EXCEPT !.waiting = FALSE]
    /\ UNCHANGED <<surface, request, serverVars, tasks, future, worker, calls>>

\* ------------------------------------------------- _process_conversion
KeyErrorText == <<"'task_id'">>
NoLoopText == <<"There is no current event loop in thread">>
NotFoundText(req) == <<"Input file not found: ", req.input_file>>
EngineErrorText == <<"Pandoc died with exitcode">>

\* Variant of EnterExcept: the failure is raised without being reported.
EnterExceptSilent(w, e) ==
    [w EXCEPT !.pc = "done", !.cb = "call", !.exc = e, !.temp = FALSE,
              !.outcome = "raised"]

\* except Exception as e: the handler reports -1 next.  An exception raised
\* inside case 3's inner try first runs its finally (the temp file is removed).
EnterExcept(w, e) ==
    [w EXCEPT !.pc = "cb", !.pct = -1, !.cb = "call", !.exc = e, !.temp = FALSE]

\* progress_callback(task_id, p, ...) returned normally.
Returned(w) ==
    LET nx == AfterCallback(w.pct) IN
    [w EXCEPT !.pc = nx.pc, !.pct = nx.pct, !.cb = "call", !.cb_exc = <<>>,
              !.temp = IF w.pct = 75 THEN FALSE ELSE @,
              !.outcome = IF nx.pc # "done" THEN @
                          ELSE IF w.pct = 100 THEN "returned" ELSE "raised"]

\* Variant of Raised: an exception of the -1 callback is caught as well and
\* reported again.
RaisedRetry(w, e) == EnterExcept([w EXCEPT !.cb_exc = e], e)

\* progress_callback(task_id, p, ...) raised e: inside the try it is caught at
\* the task boundary; inside the except handler (p = -1) it propagates.
Raised(w, e) ==
    IF w.pct = -1
    THEN [w EXCEPT !.pc = "done", !.cb = "call", !.cb_exc = e, !.outcome = "raised"]
    ELSE EnterExcept([w EXCEPT !.cb_exc = e], e)

CurrentMessage(t) ==
    Message(request[t], worker[t].pct, worker[t].exc, worker[t].result)

\* progress_callback(task_id, percentage, message) as the body calls it.
Invocation(t) ==
    [task_id |-> worker[t].task_id, percentage |-> worker[t].pct,
     message |-> CurrentMessage(t)]

\* The event the callback of task t's surface builds for the current call.
CurrentEvent(t) ==
    IF surface[t] = "mcp"
    THEN McpEventData(worker[t].pct, CurrentMessage(t))
    ELSE EventData(worker[t].pct, CurrentMessage(t))

\* Variant of CallbackCheck: an id that is not registered is registered by
\* the callback (a setdefault in place of the membership test).
CallbackCheckRegisters(t) ==
    /\ worker[t].pc = "cb" /\ worker[t].cb = "call"
    /\ surface[t] \in {"plain", "mcp"}
    /\ calls' = [calls EXCEPT ![t] = Append(@, Invocation(t))]
    /\ worker' = [worker EXCEPT ![t].cb = "lookup"]
    /\ active_connections' = active_connections \cup {worker[t].task_id}
    /\ UNCHANGED <<surface, request, queue, stream, result_future, http, poolVars>>

\* stream callback, `if event_data and task_id in active_connections`:
\* the membership test, read on the pool thread.
CallbackCheck(t) ==
    /\ worker[t].pc = "cb" /\ worker[t].cb = "call"
    /\ surface[t] \in {"plain", "mcp"}
    /\ calls' = [calls EXCEPT ![t] = Append(@, Invocation(t))]
    /\ worker' = [worker EXCEPT ![t] =
                    IF worker[t].task_id \in active_connections
                    THEN [@ EXCEPT !.cb = "lookup"] ELSE Returned(@)]
    /\ UNCHANGED <<surface, request, serverVars, poolVars>>

\* stream callback, `active_connections[task_id].put(event_data)`: the
\* subscript raises KeyError when the id was removed since the test.
CallbackLookup(t) ==
    /\ worker[t].pc = "cb" /\ worker[t].cb = "lookup"
    /\ worker' = [worker EXCEPT ![t] =
                    IF worker[t].task_id \in active_connections
                    THEN [@ EXCEPT !.cb = "loop"] ELSE Raised(@, KeyErrorText)]
    /\ UNCHANGED <<surface, request, serverVars, poolVars, calls>>

\* stream callback, `asyncio.get_event_loop()` and run_coroutine_threadsafe:
\* with a loop the put is scheduled on it (FIFO) and lands on the queue that
\* was looked up; without one the call raises RuntimeError.
CallbackSchedule(t) ==
    /\ worker[t].pc = "cb" /\ worker[t].cb = "loop"
    /\ IF get_event_loop(CallbackThread) = "RuntimeError"
       THEN /\ worker' = [worker EXCEPT ![t] = Raised(@, NoLoopText)]
            /\ UNCHANGED queue
       ELSE /\ queue' = [queue EXCEPT ![worker[t].task_id] = Append(@, CurrentEvent(t))]
            /\ worker' = [worker EXCEPT ![t] = Returned(@)]
    /\ UNCHANGED <<surface, request, active_connections, stream, result_future,
                   http, poolVars, calls>>

\* convert_contents.progress_callback: 100 sets the result, -1 the exception,
\* each only if the future is not done; every other percentage is ignored.
SyncCallback(t) ==
    /\ worker[t].pc = "cb" /\ worker[t].cb = "call"
    /\ surface[t] = "sync"
    /\ calls' = [calls EXCEPT ![t] = Append(@, Invocation(t))]
    /\ result_future' =
         IF worker[t].pct \in {100, -1} /\ result_future[t].state = "pending"
         THEN [result_future EXCEPT ![t] =
                 [state |-> IF worker[t].pct = 100 THEN "result" ELSE "exception",
                  value |-> CurrentMessage(t)]]
         ELSE result_future
    /\ worker' = [worker EXCEPT ![t] = Returned(@)]
    /\ UNCHANGED <<surface, request, active_connections, queue, stream, http,
                   poolVars>>

WriteErrorText == <<"No space left on device">>
MakedirsErrorText == <<"Permission denied">>

\* What the file system lets the preparation of a case do.
PrepareOutcomes(m) ==
    CASE m = "string_to_file" -> {"ok", "write_fails", "makedirs_fails"}
      [] m = "file_to_file"   -> {"ok", "makedirs_fails"}
      [] OTHER                -> {"ok"}

\* Between the 25 and the 50 callback: case selection, the input-file test,
\* the temp file of case 3 and the output directory.  In case 3 the temp file
\* is created (delete=False) and written inside the `with`, before the inner
\* try: a write that fails leaves the file behind, while a failing makedirs
\* is inside the try and runs the finally that unlinks it.
Prepare(t) ==
    /\ worker[t].pc = "prepare"
    /\ LET req == request[t]
           m == Mode(req) IN
       \E o \in PrepareOutcomes(m) :
         worker' = [worker EXCEPT ![t] =
            IF m \in {"file_to_file", "file_to_string"} /\ ~path_exists(req.input_file)
            THEN EnterExcept(@, NotFoundText(req))
            ELSE IF o = "write_fails"
            THEN [EnterExcept(@, WriteErrorText) EXCEPT !.temp = TRUE]
            ELSE IF o = "makedirs_fails"
            THEN EnterExcept(@, MakedirsErrorText)
            ELSE [@ EXCEPT !.pc = "cb", !.pct = 50, !.cb = "call",
                           !.temp = (m = "string_to_file")]]
    /\ UNCHANGED <<surface, request, serverVars, poolVars, calls>>

\* Variant of Engine: a failed engine call is tried a second time.
EngineRetries(t) ==
    /\ worker[t].pc = "engine"
    /\ \E ok \in BOOLEAN :
         worker' = [worker EXCEPT ![t] =
            IF ok
            THEN [@ EXCEPT !.pc = "cb", !.pct = 75, !.cb = "call",
                           !.result = ResultOf(request[t]),
                           !.engine_calls = @ + 1]
            ELSE IF @.engine_calls = 0 THEN [@ EXCEPT !.engine_calls = @ + 1]
            ELSE EnterExcept([@ EXCEPT !.engine_calls = @ + 1], EngineErrorText)]
    /\ UNCHANGED <<surface, request, serverVars, poolVars, calls>>

\* pypandoc.convert_file / convert_text: returns or raises.
Engine(t) ==
    /\ worker[t].pc = "engine"
    /\ \E ok \in BOOLEAN :
         worker' = [worker EXCEPT ![t] =
            IF ok
            THEN [@ EXCEPT !.pc = "cb", !.pct = 75, !.cb = "call",
                           !.result = ResultOf(request[t]),
                           !.engine_calls = @ + 1]
            ELSE EnterExcept([@ EXCEPT !.engine_calls = @ + 1], EngineErrorText)]
    /\ UNCHANGED <<surface, request, serverVars, poolVars, calls>>

\* Variant of TaskDone: the entry is left in WorkerPool.tasks.
TaskDoneKeepsEntry(t) ==
    /\ LoopRuns
    /\ worker[t].pc = "done" /\ future[t] = "pending"
    /\ future' = [future EXCEPT ![t] =
                    IF worker[t].outcome = "returned" THEN "finished" ELSE "failed"]
    /\ UNCHANGED <<surface, request, serverVars, tasks, executor, worker, calls>>

\* The future's completion reaches the event loop and its done-callback
\* _task_done removes the id from WorkerPool.tasks.  A future is done when
\* the body returned or raised, or when shutdown() cancelled it.  The
\* entry is looked up by the task's id ("if task_id in self.tasks: del").
TaskDone(t) ==
    /\ LoopRuns
    /\ \/ worker[t].pc = "done" /\ future[t] = "pending"
       \/ future[t] = "cancelled" /\ worker[t].task_id \in tasks
    /\ future' = [future EXCEPT ![t] =
                    IF @ = "cancelled" THEN @
                    ELSE IF worker[t].outcome = "returned" THEN "finished" ELSE "failed"]
    /\ tasks' = tasks \ {worker[t].task_id}
    /\ UNCHANGED <<surface, request, serverVars, executor, worker, calls>>

\* -------------------------------------------------------- POST /convert
ShutdownText == <<"cannot schedule new futures after shutdown">>

\* convert_contents up to `await result_future`: a request that fails
\* validation never reaches the handler.
AcceptSync(t, req) ==
    /\ LoopRuns
    /\ FreshId(t) /\ ValidRequest(req)
    /\ surface' = [surface EXCEPT ![t] = "sync"]
    /\ request' = [request EXCEPT ![t] = req]
    /\ IF SubmitRaises
       THEN /\ http' = [http EXCEPT ![t] =
                          [pc |-> "responded", status |-> 500, body |-> ShutdownText]]
            /\ UNCHANGED <<result_future, tasks, future, executor, worker>>
       ELSE /\ submit_task(t, t)
            /\ result_future' = [result_future EXCEPT ![t].state = "pending"]
            /\ http' = [http EXCEPT ![t].pc = "await"]
    /\ UNCHANGED <<active_connections, queue, stream, calls>>

\* A request that ConversionRequest refuses, on surface sfc: POST /convert
\* answers 422 before the handler runs; in stream_conversion and
\* mcp_sse_endpoint the constructor raises in the handler, before the id is
\* generated, and the request is answered with 500.
ValidationText == <<"validation error">>

Reject(t, req, sfc) ==
    /\ LoopRuns
    /\ FreshId(t) /\ ~ValidRequest(req)
    /\ sfc = "mcp" => req.input_file = None
    /\ surface' = [surface EXCEPT ![t] = sfc]
    /\ request' = [request EXCEPT ![t] = req]
    /\ http' = [http EXCEPT ![t] =
                  [pc |-> "responded",
                   status |-> IF sfc = "sync" THEN 422 ELSE 500,
                   body |-> ValidationText]]
    /\ UNCHANGED <<active_connections, queue, stream, result_future, poolVars,
                   worker, calls>>

\* `result = await result_future` resumes: 200 with the result, or the
\* exception is caught and answered with 500.
SyncRespond(t) ==
    /\ LoopRuns
    /\ http[t].pc = "await"
    /\ result_future[t].state \in {"result", "exception"}
    /\ http' = [http EXCEPT ![t] =
                  [pc |-> "responded",
                   status |-> IF result_future[t].state = "result" THEN 200 ELSE 500,
                   body |-> result_future[t].value]]
    /\ UNCHANGED <<surface, request, active_connections, queue, stream,
                   result_future, poolVars, worker, calls>>

\* --------------------------------------------------- GET /convert/stream
\* stream_conversion: the request is validated, the id generated, the queue
\* created and registered; the generator is handed to EventSourceResponse
\* without having run.
AcceptPlain(t, req) ==
    /\ LoopRuns
    /\ FreshId(t) /\ ValidRequest(req)
    /\ surface' = [surface EXCEPT ![t] = "plain"]
    /\ request' = [request EXCEPT ![t] = req]
    /\ active_connections' = active_connections \cup {t}
    /\ queue' = [queue EXCEPT ![t] = <<>>]
    /\ stream' = [stream EXCEPT ![t].pc = "accepted"]
    /\ UNCHANGED <<result_future, http, poolVars, worker, calls>>

Emit(st, e) == [st EXCEPT !.emitted = Append(@, e)]

\* event_generator is iterated for the first time: it enters the try and
\* suspends at the yield of the initial progress event.
GenStart(t) ==
    /\ LoopRuns
    /\ surface[t] = "plain" /\ stream[t].pc = "accepted"
    /\ stream' = [stream EXCEPT ![t] = [Emit(@, InitialEvent) EXCEPT !.pc = "yield_initial"]]
    /\ UNCHANGED <<surface, request, active_connections, queue, result_future,
                   http, poolVars, worker, calls>>

\* Resumed after the initial event: the task is built and submitted, then the
\* loop suspends in its first drain.  An exception of submit_task is caught
\* by `except Exception` and yielded as an error event.
GenSubmit(t) ==
    /\ LoopRuns
    /\ surface[t] = "plain" /\ stream[t].pc = "yield_initial"
    /\ IF SubmitRaises
       THEN /\ stream' = [stream EXCEPT ![t] =
                            [Emit(@, ExceptionEvent(ShutdownText)) EXCEPT
                               !.pc = "yield_terminal", !.outcome = "ERRORED"]]
            /\ UNCHANGED <<tasks, future, executor, worker>>
       ELSE /\ submit_task(t, t)
            /\ stream' = [stream EXCEPT ![t].pc = "drain", ![t].heartbeat_timer = 0]
    /\ UNCHANGED <<surface, request, active_connections, queue, result_future,
                   http, calls>>

\* The finally clause of the generator.
Deregister(t) == active_connections' = active_connections \ {t}

\* The generator has finished: its frame (heartbeat_timer) is gone.
Close(st) == [st EXCEPT !.pc = "closed", !.heartbeat_timer = 0, !.elapsed = 0]

\* Variant of OnDrainTimeout: no break after the timeout error.
OnDrainTimeoutNoBreak(st) ==
    LET timer == st.heartbeat_timer + DrainTimeout
        hb == Emit(st, HeartbeatEvent) IN
    IF timer >= InactivityCeiling
    THEN [Emit(hb, TimeoutEvent) EXCEPT !.heartbeat_timer = 0, !.outcome = "TIMED_OUT"]
    ELSE [hb EXCEPT !.heartbeat_timer = timer]

\* Variant of OnDrainTimeout: below the ceiling a drain timeout only counts.
OnDrainTimeoutSilent(st) ==
    LET timer == st.heartbeat_timer + DrainTimeout IN
    IF timer >= InactivityCeiling
    THEN [Emit(Emit(st, HeartbeatEvent), TimeoutEvent) EXCEPT
            !.heartbeat_timer = timer, !.pc = "yield_terminal", !.outcome = "TIMED_OUT"]
    ELSE [st EXCEPT !.heartbeat_timer = timer]

\* except asyncio.TimeoutError: the heartbeat is yielded; resumed, the timer
\* grows by the drain timeout and, at the ceiling, the timeout error is
\* yielded.  (Resuming after the heartbeat touches only generator locals, so
\* the yield and the resumption are one step here.)
OnDrainTimeout(st) ==
    LET timer == st.heartbeat_timer + DrainTimeout
        hb == Emit(st, HeartbeatEvent) IN
    IF timer >= InactivityCeiling
    THEN [Emit(hb, TimeoutEvent) EXCEPT
            !.heartbeat_timer = timer, !.pc = "yield_terminal", !.outcome = "TIMED_OUT"]
    ELSE [hb EXCEPT !.heartbeat_timer = timer]

\* Variant of OnEvent: a received event restarts the inactivity count.
OnEventResets(st, e) ==
    [Emit(st, e) EXCEPT
       !.heartbeat_timer = 0,
       !.pc = IF IsTerminal(e) THEN "yield_terminal" ELSE @,
       !.outcome = IF e.event = "complete" THEN "COMPLETED"
                   ELSE IF e.event = "error" THEN "ERRORED" ELSE @]

\* An event was taken from the queue: it is yielded, and a complete or error
\* event breaks the loop.
OnEvent(st, e) ==
    [Emit(st, e) EXCEPT
       !.pc = IF IsTerminal(e) THEN "yield_terminal" ELSE @,
       !.outcome = IF e.event = "complete" THEN "COMPLETED"
                   ELSE IF e.event = "error" THEN "ERRORED" ELSE @]

\* await asyncio.wait_for(queue.get(), timeout=15.0) completes: with the
\* next queued event, or, the queue having stayed empty, with TimeoutError.
Drain(t) ==
    /\ LoopRuns
    /\ surface[t] = "plain" /\ stream[t].pc = "drain"
    /\ IF queue[t] # <<>>
       THEN /\ queue' = [queue EXCEPT ![t] = Tail(@)]
            /\ stream' = [stream EXCEPT ![t] = OnEvent(@, Head(queue[t]))]
       ELSE /\ stream' = [stream EXCEPT ![t] = OnDrainTimeout(@)]
            /\ UNCHANGED queue
    /\ UNCHANGED <<surface, request, active_connections, result_future, http,
                   poolVars, worker, calls>>

\* The generator is resumed after the yield of its last event: the loop was
\* left (or the except clause is done) and the finally clause runs.
Finish(t) ==
    /\ LoopRuns
    /\ surface[t] = "plain" /\ stream[t].pc = "yield_terminal"
    /\ stream' = [stream EXCEPT ![t] = Close(@)]
    /\ Deregister(t)
    /\ UNCHANGED <<surface, request, queue, result_future, http, poolVars,
                   worker, calls>>

\* The client goes away.  A generator suspended at a yield or in the drain
\* gets GeneratorExit / CancelledError there (neither is an Exception) and
\* runs its finally; a generator that was never iterated runs nothing.  What
\* a client that has gone had received is not kept.
Disconnect(t) ==
    /\ LoopRuns
    /\ surface[t] = "plain"
    /\ stream[t].pc \in {"accepted", "yield_initial", "drain"}
    /\ stream' = [stream EXCEPT ![t] =
                    [Close(@) EXCEPT !.outcome = "DISCONNECTED", !.emitted = <<>>]]
    /\ IF stream[t].pc = "accepted"
       THEN UNCHANGED active_connections
       ELSE Deregister(t)
    /\ UNCHANGED <<surface, request, queue, result_future, http, poolVars,
                   worker, calls>>

\* -------------------------------------------- GET /sse?tool=convert-contents
\* mcp_sse_endpoint: the request is built with input_file=None and validated;
\* mcp_convert_generator is handed to EventSourceResponse without having run.
AcceptMcp(t, req) ==
    /\ LoopRuns
    /\ FreshId(t) /\ ValidRequest(req)
    /\ req.input_file = None
    /\ surface' = [surface EXCEPT ![t] = "mcp"]
    /\ request' = [request EXCEPT ![t] = req]
    /\ stream' = [stream EXCEPT ![t].pc = "accepted"]
    /\ UNCHANGED <<active_connections, queue, result_future, http, poolVars,
                   worker, calls>>

\* First iteration: inside the try the queue is created and registered, and
\* the generator suspends at the yield of the created event.
McpStart(t) ==
    /\ LoopRuns
    /\ surface[t] = "mcp" /\ stream[t].pc = "accepted"
    /\ active_connections' = active_connections \cup {t}
    /\ queue' = [queue EXCEPT ![t] = <<>>]
    /\ stream' = [stream EXCEPT ![t] =
                    [Emit(@, McpInitialEvent) EXCEPT !.pc = "yield_initial"]]
    /\ UNCHANGED <<surface, request, result_future, http, poolVars, worker, calls>>

\* Resumed: the task is submitted and the loop suspends in its first drain;
\* an exception of submit_task is yielded as an error event.
McpSubmit(t) ==
    /\ LoopRuns
    /\ surface[t] = "mcp" /\ stream[t].pc = "yield_initial"
    /\ IF SubmitRaises
       THEN /\ stream' = [stream EXCEPT ![t] =
                            [Emit(@, McpExceptionEvent(ShutdownText)) EXCEPT
                               !.pc = "yield_terminal", !.outcome = "ERRORED"]]
            /\ UNCHANGED <<tasks, future, executor, worker>>
       ELSE /\ submit_task(t, t)
            /\ stream' = [stream EXCEPT ![t].pc = "drain"]
    /\ UNCHANGED <<surface, request, active_connections, queue, result_future,
                   http, calls>>

\* Variant of McpOnEvent: the loop is not left after a complete or error
\* event.
McpOnEventNoBreak(st, e) ==
    [Emit(st, e) EXCEPT
       !.outcome = IF e.status = "complete" THEN "COMPLETED"
                   ELSE IF e.status = "error" THEN "ERRORED" ELSE @]

\* The loop body of mcp_convert_generator for the event e: yield it, and
\* break if its status is complete or error.
McpOnEvent(st, e) ==
    [Emit(st, e) EXCEPT
       !.pc = IF McpIsTerminal(e) THEN "yield_terminal" ELSE @,
       !.outcome = IF e.status = "complete" THEN "COMPLETED"
                   ELSE IF e.status = "error" THEN "ERRORED" ELSE @]

\* Variant of McpOnDrainTimeout: the TimeoutError is caught inside the loop,
\* which goes on waiting.
McpOnDrainTimeoutInLoop(st) ==
    [Emit(st, McpTimeoutEvent) EXCEPT !.outcome = "TIMED_OUT"]

\* except asyncio.TimeoutError around the whole loop: the wait lasted its
\* full timeout; the timeout error is yielded and nothing else follows.
McpOnDrainTimeout(st) ==
    [Emit(st, McpTimeoutEvent) EXCEPT
       !.pc = "yield_terminal", !.outcome = "TIMED_OUT",
       !.elapsed = @ + McpDrainTimeout]

\* How long a wait that ends with an event can have lasted (seconds, less
\* than the timeout).
Waits == {0, 30}

\* await asyncio.wait_for(queue.get(), timeout=60.0) completes: with an
\* event after a wait shorter than the timeout (stream.elapsed sums the
\* time spent waiting since the loop began), or with TimeoutError.
McpDrain(t) ==
    /\ LoopRuns
    /\ surface[t] = "mcp" /\ stream[t].pc = "drain"
    /\ IF queue[t] # <<>>
       THEN /\ queue' = [queue EXCEPT ![t] = Tail(@)]
            /\ \E w \in Waits :
                  stream' = [stream EXCEPT ![t] =
                     McpOnEvent([@ EXCEPT !.elapsed = @ + w], Head(queue[t]))]
       ELSE /\ stream' = [stream EXCEPT ![t] = McpOnDrainTimeout(@)]
            /\ UNCHANGED queue
    /\ UNCHANGED <<surface, request, active_connections, result_future, http,
                   poolVars, worker, calls>>

\* Resumed after the yield of its last event: the finally clause runs.
McpFinish(t) ==
    /\ LoopRuns
    /\ surface[t] = "mcp" /\ stream[t].pc = "yield_terminal"
    /\ stream' = [stream EXCEPT ![t] = Close(@)]
    /\ Deregister(t)
    /\ UNCHANGED <<surface, request, queue, result_future, http, poolVars,
                   worker, calls>>

\* The client goes away: as for the plain stream, except that a generator
\* never iterated has registered nothing.
McpDisconnect(t) ==
    /\ LoopRuns
    /\ surface[t] = "mcp"
    /\ stream[t].pc \in {"accepted", "yield_initial", "drain"}
    /\ stream' = [stream EXCEPT ![t] =
                    [Close(@) EXCEPT !.outcome = "DISCONNECTED", !.emitted = <<>>]]
    /\ IF stream[t].pc = "accepted"
       THEN UNCHANGED active_connections
       ELSE Deregister(t)
    /\ UNCHANGED <<surface, request, queue, result_future, http, poolVars,
                   worker, calls>>

\* ------------------------------------------------------------ behaviours
\* The requests each surface is driven with.  POST /convert exercises the
\* four conversion cases; the streams a string and a (missing) file input;
\* /sse never passes an input file.
SyncRequests == {S2S, S2F, F2S, F2F, NoOut}
StreamRequests == {S2S, F2S, NoOut}
McpRequests == {S2S, S2F, NoOut}

Next ==
    \/ \E t \in TaskIds, req \in SyncRequests : AcceptSync(t, req)
    \/ \E t \in TaskIds, req \in StreamRequests : AcceptPlain(t, req)
    \/ \E t \in TaskIds, req \in McpRequests : AcceptMcp(t, req)
    \/ \E t \in TaskIds : SyncRespond(t)
    \/ \E t \in TaskIds : McpStart(t)
    \/ \E t \in TaskIds : McpSubmit(t)
    \/ \E t \in TaskIds : McpDrain(t)
    \/ \E t \in TaskIds : McpFinish(t)
    \/ \E t \in TaskIds : McpDisconnect(t)
    \/ \E t \in TaskIds : GenStart(t)
    \/ \E t \in TaskIds : GenSubmit(t)
    \/ \E t \in TaskIds : Drain(t)
    \/ \E t \in TaskIds : Finish(t)
    \/ \E t \in TaskIds : Disconnect(t)
    \/ \E t \in TaskIds : StartTask(t)
    \/ \E t \in TaskIds : EnterBody(t)
    \/ \E t \in TaskIds : CallbackCheck(t)
    \/ \E t \in TaskIds : CallbackLookup(t)
    \/ \E t \in TaskIds : CallbackSchedule(t)
    \/ \E t \in TaskIds : SyncCallback(t)
    \/ \E t \in TaskIds : Prepare(t)
    \/ \E t \in TaskIds : Engine(t)
    \/ \E t \in TaskIds : TaskDone(t)
    \/ Shutdown
    \/ ShutdownReturns

Spec == Init /\ [][Next]_vars

\* A pool that is never shut down, with the scheduling the platform gives
\* its threads: a pool thread that can take a step eventually takes it (the
\* engine call returns or raises), and the executor hands the oldest work
\* item to a free thread.
WorkerStep(t) ==
    \/ StartTask(t)
    \/ EnterBody(t)
    \/ CallbackCheck(t)
    \/ CallbackLookup(t)
    \/ CallbackSchedule(t)
    \/ SyncCallback(t)
    \/ Prepare(t)
    \/ Engine(t)

NextServing ==
    \/ \E t \in TaskIds, req \in SyncRequests : AcceptSync(t, req)
    \/ \E t \in TaskIds, req \in StreamRequests : AcceptPlain(t, req)
    \/ \E t \in TaskIds, req \in McpRequests : AcceptMcp(t, req)
    \/ \E t \in TaskIds : SyncRespond(t)
    \/ \E t \in TaskIds : McpStart(t)
    \/ \E t \in TaskIds : McpSubmit(t)
    \/ \E t \in TaskIds : McpDrain(t)
    \/ \E t \in TaskIds : McpFinish(t)
    \/ \E t \in TaskIds : McpDisconnect(t)
    \/ \E t \in TaskIds : GenStart(t)
    \/ \E t \in TaskIds : GenSubmit(t)
    \/ \E t \in TaskIds : Drain(t)
    \/ \E t \in TaskIds : Finish(t)
    \/ \E t \in TaskIds : Disconnect(t)
    \/ \E t \in TaskIds : WorkerStep(t)
    \/ \E t \in TaskIds : TaskDone(t)

ServingSpec ==
    Init /\ [][NextServing]_vars /\ \A t \in TaskIds : WF_vars(WorkerStep(t))

\* The pool alone, driven by POST /convert, for the pool sizes up to MaxPool
\* (WorkerPool(max_workers=...)).
MaxPool == 2

InitPool ==
    \E n \in 1..MaxPool :
        /\ surface = [t \in TaskIds |-> "none"]
        /\ request = [t \in TaskIds |-> S2S]
        /\ active_connections = {}
        /\ queue = [t \in TaskIds |-> <<>>]
        /\ stream = [t \in TaskIds |-> IdleStream]
        /\ result_future = [t \in TaskIds |-> [state |-> "none", value |-> <<>>]]
        /\ http = [t \in TaskIds |-> [pc |-> "none", status |-> 0, body |-> <<>>]]
        /\ tasks = {}
        /\ future = [t \in TaskIds |-> "none"]
        /\ executor = [max_workers |-> n, work_queue |-> <<>>,
                       shutdown |-> FALSE, waiting |-> FALSE]
        /\ worker = [t \in TaskIds |-> IdleWorker]
        /\ calls = [t \in TaskIds |-> <<>>]

NextPool ==
    \/ \E t \in TaskIds, req \in SyncRequests : AcceptSync(t, req)
    \/ \E t \in TaskIds : SyncRespond(t)
    \/ \E t \in TaskIds : StartTask(t)
    \/ \E t \in TaskIds : EnterBody(t)
    \/ \E t \in TaskIds : SyncCallback(t)
    \/ \E t \in TaskIds : Prepare(t)
    \/ \E t \in TaskIds : Engine(t)
    \/ \E t \in TaskIds : TaskDone(t)

PoolSpec == InitPool /\ [][NextPool]_vars

\* POST /convert and the three validating entry points under every kind of
\* request body, the ones without a content source and with empty contents
\* included.
AllRequests == {S2S, S2F, F2S, F2F, NoOut, Neither, EmptyToFile}

NextIntake ==
    \/ \E t \in TaskIds, req \in AllRequests : AcceptSync(t, req)
    \/ \E t \in TaskIds, req \in AllRequests, sfc \in {"sync", "plain", "mcp"} :
          Reject(t, req, sfc)
    \/ \E t \in TaskIds : SyncRespond(t)
    \/ \E t \in TaskIds : StartTask(t)
    \/ \E t \in TaskIds : EnterBody(t)
    \/ \E t \in TaskIds : SyncCallback(t)
    \/ \E t \in TaskIds : Prepare(t)
    \/ \E t \in TaskIds : Engine(t)
    \/ \E t \in TaskIds : TaskDone(t)

IntakeSpec == Init /\ [][NextIntake]_vars

\* The pool used directly, as the tests of the pool do: a caller builds a
\* ConversionTask with an id of its own choice and a completion tracker as
\* callback, and awaits submit_task.  Nothing makes the ids differ.
DirectRequests == {S2S, F2S}

DirectSubmit(t, id, req) ==
    /\ LoopRuns /\ ~SubmitRaises
    /\ FreshId(t)
    /\ surface' = [surface EXCEPT ![t] = "sync"]
    /\ request' = [request EXCEPT ![t] = req]
    /\ submit_task(t, id)
    /\ result_future' = [result_future EXCEPT ![t].state = "pending"]
    /\ UNCHANGED <<active_connections, queue, stream, http, calls>>

NextDirect ==
    \/ \E t \in TaskIds, id \in TaskIds, req \in DirectRequests :
          DirectSubmit(t, id, req)
    \/ \E t \in TaskIds : StartTask(t)
    \/ \E t \in TaskIds : EnterBody(t)
    \/ \E t \in TaskIds : SyncCallback(t)
    \/ \E t \in TaskIds : Prepare(t)
    \/ \E t \in TaskIds : Engine(t)
    \/ \E t \in TaskIds : TaskDone(t)

DirectSpec == InitPool /\ [][NextDirect]_vars

\* POST /convert on a pool that may be shut down while requests wait, with
\* the scheduling the platform gives: pool threads take their steps,
\* executor.shutdown(wait=True) returns once the threads have exited, and
\* the event loop resumes a handler whose future is resolved.
NextPoolShutdown ==
    \/ NextPool
    \/ Shutdown
    \/ ShutdownReturns

PoolLiveSpec ==
    /\ InitPool /\ [][NextPoolShutdown]_vars
    /\ \A t \in TaskIds : WF_vars(WorkerStep(t)) /\ WF_vars(SyncRespond(t))
    /\ WF_vars(ShutdownReturns)

\* The generators under any producer.  `active_connections[task_id].put(
\* event_data)` is the coroutine the stream callback hands to the event loop:
\* run there, it appends the event to the stream's queue.  In Spec it is
\* never scheduled, because the lookup of the loop raises first; here the
\* queue of one stream is fed with any events, at any moment of its drain, so
\* that every path of the two loops is taken.
FedId == 1
MaxFed == 2

FedEvents(t) ==
    IF surface[t] = "mcp"
    THEN {McpEventData(50, <<"Converting">>), McpEventData(100, EngineOutput),
          McpEventData(-1, EngineErrorText)}
    ELSE {EventData(50, <<"Converting">>), EventData(100, EngineOutput),
          EventData(-1, EngineErrorText)}

\* The events of a stream that came through its queue.
Fed(t) ==
    LET own == IF surface[t] = "mcp"
               THEN {McpInitialEvent, McpTimeoutEvent, McpExceptionEvent(ShutdownText)}
               ELSE {InitialEvent, HeartbeatEvent, TimeoutEvent,
                     ExceptionEvent(ShutdownText)}
        Through(e) == e \notin own IN
    SelectSeq(stream[t].emitted, Through)

Put(t) ==
    /\ LoopRuns
    /\ surface[t] \in {"plain", "mcp"} /\ stream[t].pc = "drain"
    /\ Len(Fed(t)) + Len(queue[t]) < MaxFed
    /\ \E e \in FedEvents(t) : queue' = [queue EXCEPT ![t] = Append(@, e)]
    /\ UNCHANGED <<surface, request, active_connections, stream, result_future,
                   http, poolVars, worker, calls>>

NextFed ==
    \/ \E req \in StreamRequests : AcceptPlain(FedId, req)
    \/ \E req \in McpRequests : AcceptMcp(FedId, req)
    \/ McpStart(FedId)
    \/ McpSubmit(FedId)
    \/ McpDrain(FedId)
    \/ McpFinish(FedId)
    \/ McpDisconnect(FedId)
    \/ GenStart(FedId)
    \/ GenSubmit(FedId)
    \/ Drain(FedId)
    \/ Finish(FedId)
    \/ Disconnect(FedId)
    \/ Put(FedId)
    \/ StartTask(FedId)
    \/ EnterBody(FedId)
    \/ CallbackCheck(FedId)
    \/ CallbackLookup(FedId)
    \/ CallbackSchedule(FedId)
    \/ Prepare(FedId)
    \/ Engine(FedId)
    \/ TaskDone(FedId)
    \/ Shutdown
    \/ ShutdownReturns

FedSpec == Init /\ [][NextFed]_vars

\* The same with the scheduling the platform gives: the event loop resumes a
\* generator that can go on (the response pulls it, a wait_for ends with an
\* event or with its timeout), a pool thread that can take a step takes it,
\* and executor.shutdown(wait=True) returns once the threads have exited.
GenStep(t) ==
    \/ GenStart(t)
    \/ GenSubmit(t)
    \/ Drain(t)
    \/ Finish(t)
    \/ McpStart(t)
    \/ McpSubmit(t)
    \/ McpDrain(t)
    \/ McpFinish(t)

FedLiveSpec ==
    /\ Init /\ [][NextFed]_vars
    /\ WF_vars(GenStep(FedId))
    /\ WF_vars(WorkerStep(FedId))
    /\ WF_vars(ShutdownReturns)

\* ================================================================ claims
Percentages(log) == [i \in 1..Len(log) |-> log[i].percentage]

TerminalEvents(em) == {i \in 1..Len(em) : IsTerminal(em[i])}

TerminalCalls(log) == {i \in 1..Len(log) : log[i].percentage \in {100, -1}}

\* C1: on the plain stream an emitted complete/error event is the last event
\* emitted and the generator then only finishes; a run that ends without a
\* client disconnect has emitted exactly one such event.
C1_OneTerminalEventLast ==
    \A t \in TaskIds : surface[t] = "plain" =>
        LET em == stream[t].emitted
            term == TerminalEvents(em) IN
        /\ Cardinality(term) <= 1
        /\ term # {} => /\ term = {Len(em)}
                        /\ stream[t].pc \in {"yield_terminal", "closed"}
        /\ (stream[t].pc = "closed" /\ stream[t].outcome # "DISCONNECTED")
              => Cardinality(term) = 1

\* A plain stream that ran into the inactivity ceiling: twenty heartbeats,
\* then the timeout error, then the end.
C1_Witness ==
    \E t \in TaskIds :
        /\ surface[t] = "plain" /\ stream[t].pc = "closed"
        /\ stream[t].outcome = "TIMED_OUT"
        /\ stream[t].emitted[Len(stream[t].emitted)] = TimeoutEvent

\* C2: the message of every 100 callback is the conversion outcome (the
\* engine's output, or the saved-to message), and so is the result that
\* POST /convert answers with.
C2_CompleteCarriesOutcome ==
    \A t \in TaskIds :
        /\ \A i \in 1..Len(calls[t]) :
              calls[t][i].percentage = 100
                 => calls[t][i].message = ResultOf(request[t])
        /\ (http[t].pc = "responded" /\ http[t].status = 200)
              => http[t].body = ResultOf(request[t])

\* C3: the callback log of a task holds at most one terminal percentage
\* (100 or -1), nothing follows it, and a body that has ended has made one.
C3_OneTerminalCallbackLast ==
    \A t \in TaskIds :
        LET term == TerminalCalls(calls[t]) IN
        /\ Cardinality(term) <= 1
        /\ term # {} => term = {Len(calls[t])}
        /\ worker[t].pc = "done" => Cardinality(term) = 1
        /\ (term # {} /\ worker[t].pc # "done")
              => worker[t].pc = "cb" /\ worker[t].pct = calls[t][Len(calls[t])].percentage

\* A body whose 0 callback raised: it ended after the -1 callback, which
\* raised too.
C3_Witness ==
    \E t \in TaskIds :
        /\ worker[t].pc = "done" /\ worker[t].cb_exc # <<>>
        /\ Percentages(calls[t]) = <<0, -1>>

\* C4: a task whose body returned made exactly the callbacks 0, 25, 50, 75,
\* 100, in this order, whatever its conversion case.
C4_SuccessSequence ==
    \A t \in TaskIds :
        worker[t].outcome = "returned"
           => Percentages(calls[t]) = <<0, 25, 50, 75, 100>>

\* Two tasks that returned, one of a file-producing and one of a
\* string-producing case.
C4_Witness ==
    \E t, u \in TaskIds :
        /\ worker[t].outcome = "returned" /\ Mode(request[t]) = "string_to_file"
        /\ worker[u].outcome = "returned" /\ Mode(request[u]) = "string_to_string"

\* C5: never more than max_workers bodies execute at once, and every task
\* handed to the pool is eventually run to its terminal callback.
C5_BoundedAndComplete ==
    /\ [](Cardinality(Executing) <= max_workers)
    /\ \A t \in TaskIds :
          (worker[t].pc = "queued")
             ~> (worker[t].pc = "done" /\ TerminalCalls(calls[t]) # {})

\* More tasks than slots: every slot is taken by an executing body while a
\* submitted task waits in the executor's queue.
C5_Witness ==
    /\ Cardinality(Executing) = max_workers
    /\ \E t \in TaskIds : worker[t].pc = "queued" /\ future[t] = "pending"

\* The events of a plain stream that its generator made itself.
Synthetic == {InitialEvent, HeartbeatEvent, TimeoutEvent, ExceptionEvent(ShutdownText)}

FromWorker(e) == e \notin Synthetic

\* The callback calls of task t that have run to their end.
CompletedCalls(t) ==
    IF worker[t].pc = "cb" /\ worker[t].cb # "call"
    THEN SubSeq(calls[t], 1, Len(calls[t]) - 1) ELSE calls[t]

\* C6: while a plain stream is being served, the worker events it has
\* emitted, followed by those still queued, are the events of the callback
\* calls made, in the order of the calls, each once.
C6_InOrderDelivery ==
    \A t \in TaskIds :
        (surface[t] = "plain" /\ stream[t].pc \in {"drain", "yield_terminal"})
           => SelectSeq(stream[t].emitted, FromWorker) \o queue[t]
                = [i \in 1..Len(CompletedCalls(t)) |->
                     EventData(CompletedCalls(t)[i].percentage,
                               CompletedCalls(t)[i].message)]

\* C7: a callback call that reaches its put while the channel is registered
\* appends its event to the task's queue, and a plain stream runs into the
\* synthetic timeout only if the task has not ended.
C7_EveryCallbackDelivered ==
    [][\A t \in TaskIds :
          /\ (/\ worker[t].pc = "cb" /\ worker[t].cb = "loop"
              /\ worker'[t] # worker[t]
              /\ t \in active_connections)
                => queue'[t] = Append(queue[t], CurrentEvent(t))
          /\ (/\ surface[t] = "plain"
              /\ stream[t].outcome # "TIMED_OUT"
              /\ stream'[t].outcome = "TIMED_OUT")
                => worker[t].pc # "done"]_vars

\* C8: a stream that was disconnected after its task was submitted is no
\* longer registered, and a callback call never raises on a task id that is
\* not registered.
C8_RemovedChannelIsNoOp ==
    /\ [](\A t \in TaskIds :
            (stream[t].outcome = "DISCONNECTED" /\ worker[t].pc # "idle")
               => t \notin active_connections)
    /\ [][\A t \in TaskIds :
            (/\ worker[t].pc = "cb" /\ worker[t].cb # "call"
             /\ worker'[t].cb = "call" /\ worker'[t].cb_exc # <<>>)
               => t \in active_connections]_vars

\* What makes a conversion itself fail.
ConversionFailures(req) ==
    {NotFoundText(req), EngineErrorText, WriteErrorText, MakedirsErrorText}

\* C9: once its stream has ended, a task's body enters its except handler
\* only because the conversion itself failed.
C9_WorkerUnaffectedByStreamEnd ==
    [][\A t \in TaskIds :
          (/\ stream[t].pc = "closed"
           /\ worker[t].pc \in {"cb", "prepare", "engine"}
           /\ worker[t].pct # -1 /\ worker'[t].pct = -1)
             => worker'[t].exc \in ConversionFailures(request[t])]_vars

\* C10: a stream that has ended is not registered.
C10_EndedStreamDeregistered ==
    \A t \in TaskIds : stream[t].pc = "closed" => t \notin active_connections

\* The number of heartbeats among the events em.
Heartbeats(em) == Cardinality({i \in 1..Len(em) : em[i] = HeartbeatEvent})

\* C11: on the plain stream a drain that times out emits exactly one
\* heartbeat, no other step emits one, and no heartbeat follows a terminal
\* event.
C11_HeartbeatPerDrainTimeout ==
    /\ [][\A t \in TaskIds :
            LET before == Heartbeats(stream[t].emitted)
                after == Heartbeats(stream'[t].emitted) IN
            /\ (/\ surface[t] = "plain" /\ stream[t].pc = "drain"
                /\ queue[t] = <<>>
                /\ stream'[t].pc \in {"drain", "yield_terminal"}
                /\ stream'[t] # stream[t])
                  => after = before + 1
            /\ after > before
                  => /\ surface[t] = "plain" /\ stream[t].pc = "drain"
                     /\ queue[t] = <<>> /\ after = before + 1]_vars
    /\ [](\A t \in TaskIds :
            \A i, j \in 1..Len(stream[t].emitted) :
               (i < j /\ surface[t] = "plain" /\ IsTerminal(stream[t].emitted[i]))
                  => stream[t].emitted[j] # HeartbeatEvent)

\* A slow task: its consumer got heartbeats, then progress, then a heartbeat
\* again, and only then the complete event.
C11_Witness ==
    \E t \in TaskIds :
        LET em == stream[t].emitted IN
        /\ surface[t] = "plain" /\ stream[t].outcome = "COMPLETED"
        /\ Len(em) >= 5
        /\ em[2] = HeartbeatEvent
        /\ em[Len(em) - 2].event = "progress"
        /\ em[Len(em) - 1] = HeartbeatEvent

\* The number of drain timeouts that exhausts the inactivity ceiling.
CeilingBeats == InactivityCeiling \div DrainTimeout

HasTimeoutEvent(em) == \E i \in 1..Len(em) : em[i] = TimeoutEvent

\* C12: while a plain stream runs its loop the inactivity counter is 15 times
\* the number of heartbeats emitted, whatever events were received; the
\* timeout error is emitted with the 20th heartbeat and with no other, it is
\* the last event, and the loop is left with it.
C12_CeilingAtTwentiethTimeout ==
    \A t \in TaskIds : surface[t] = "plain" =>
        LET em == stream[t].emitted
            st == stream[t] IN
        /\ st.pc \in {"drain", "yield_terminal"}
              => st.heartbeat_timer = DrainTimeout * Heartbeats(em)
        /\ st.pc = "drain" => st.heartbeat_timer < InactivityCeiling
        /\ Heartbeats(em) <= CeilingBeats
        /\ HasTimeoutEvent(em) <=> Heartbeats(em) = CeilingBeats
        /\ HasTimeoutEvent(em)
              => /\ em[Len(em)] = TimeoutEvent
                 /\ em[Len(em) - 1] = HeartbeatEvent
                 /\ st.outcome = "TIMED_OUT"
                 /\ st.pc \in {"yield_terminal", "closed"}

\* A stream that received progress events on its way and still ran into the
\* ceiling.
C12_Witness ==
    \E t \in TaskIds :
        /\ surface[t] = "plain" /\ stream[t].pc = "yield_terminal"
        /\ stream[t].outcome = "TIMED_OUT"
        /\ Len(Fed(t)) = MaxFed
        /\ stream[t].heartbeat_timer = InactivityCeiling

ErrorCalls(log) == {i \in 1..Len(log) : log[i].percentage = -1}

StartCalls(log) == {i \in 1..Len(log) : log[i].percentage = 0}

\* C14: a body in which something failed makes exactly one -1 callback,
\* whose message is "Error: " followed by the failure's text; it ends by
\* raising, so that its future never resolves to a result; and the body is
\* run once only.
C14_FailureReportedOnce ==
    \A t \in TaskIds :
        LET w == worker[t]
            errs == ErrorCalls(calls[t]) IN
        /\ errs # {} <=> (w.exc # <<>> /\ ~(w.pc = "cb" /\ w.pct = -1 /\ w.cb = "call"))
        /\ Cardinality(errs) <= 1
        /\ \A i \in errs : calls[t][i].message = <<"Error: ">> \o w.exc
        /\ Cardinality(StartCalls(calls[t])) <= 1 /\ w.engine_calls <= 1
        /\ (w.pc = "done" /\ w.exc # <<>>)
              => /\ w.outcome = "raised"
                 /\ future[t] \in {"pending", "failed", "cancelled"}
                 /\ (t \notin tasks /\ future[t] # "cancelled") => future[t] = "failed"

\* A task whose engine call failed: 0, 25, 50, then -1 with the engine's
\* message, and a future that holds the exception.
C14_Witness ==
    \E t \in TaskIds :
        /\ worker[t].pc = "done" /\ worker[t].exc = EngineErrorText
        /\ Percentages(calls[t]) = <<0, 25, 50, -1>>
        /\ calls[t][4].message = <<"Error: ">> \o EngineErrorText
        /\ future[t] = "failed"

\* The tasks whose body raised.
RaisedTasks == {t \in TaskIds : worker[t].outcome = "raised"}

\* C15: a body that raised no longer holds a slot; every other task that is
\* waiting or running once a body has raised is run to its own terminal
\* callback; and a request accepted after a body raised is handed to the
\* pool.
C15_FailureIsLocal ==
    /\ [](RaisedTasks \cap Executing = {})
    /\ \A t, u \in TaskIds :
          (t # u /\ t \in RaisedTasks /\ worker[u].pc \in {"queued", "cb", "prepare", "engine"})
             ~> (worker[u].pc = "done" /\ TerminalCalls(calls[u]) # {})
    /\ [][\A u \in TaskIds :
            (RaisedTasks # {} /\ surface[u] = "none" /\ surface'[u] = "sync")
               => (worker'[u].pc = "queued" /\ u \in tasks')]_vars

\* One body has raised while another task waits in the executor's queue.
C15_Witness ==
    \E t, u \in TaskIds :
        /\ t \in RaisedTasks
        /\ worker[u].pc = "queued" /\ future[u] = "pending"

ShutdownReturned == executor.shutdown /\ ~executor.waiting

\* C16: shutdown() returns only when every task handed to the pool has run
\* its body to the end and made its terminal callback; a body that executes
\* while shutdown() waits keeps executing until it is done; and no body
\* executes after shutdown() has returned.
C16_ShutdownWaitsForRunning ==
    /\ [](ShutdownReturned => Busy = {})
    /\ [][(executor.waiting /\ ~executor'.waiting)
            => \A t \in TaskIds :
                  worker[t].pc # "idle"
                     => (worker[t].pc = "done" /\ TerminalCalls(calls[t]) # {})]_vars
    /\ [][\A t \in TaskIds :
            (executor.waiting /\ t \in Executing)
               => worker'[t].pc \in {"cb", "prepare", "engine", "done"}]_vars

\* shutdown() has returned, and a task whose future it cancelled has run to
\* its 100 callback.
C16_Witness ==
    /\ ShutdownReturned
    /\ \E t \in TaskIds :
          /\ future[t] = "cancelled" /\ worker[t].outcome = "returned"
          /\ Percentages(calls[t]) = <<0, 25, 50, 75, 100>>

\* C17: once shutdown() has begun, a task that still waits in the executor's
\* queue stays there: its body is not started and it makes no callback.
C17_UnstartedNeverStarts ==
    [][\A t \in TaskIds :
          (executor.shutdown /\ worker[t].pc = "queued")
             => (worker'[t].pc = "queued" /\ calls'[t] = <<>>)]_vars

\* C18: after shutdown() a submission fails (POST /convert answers 500, a
\* stream yields an error event), leaves WorkerPool.tasks and the executor's
\* queue as they were, and its task never runs a body or makes a callback.
C18_NoSubmitAfterShutdown ==
    [][executor.shutdown =>
         \A t \in TaskIds :
            /\ worker[t].pc = "idle"
                  => (worker'[t].pc = "idle" /\ calls'[t] = <<>>)
            /\ tasks' \subseteq tasks
            /\ Len(executor'.work_queue) <= Len(executor.work_queue)
            /\ (surface[t] = "none" /\ surface'[t] = "sync")
                  => /\ http'[t] = [pc |-> "responded", status |-> 500,
                                    body |-> ShutdownText]
                     /\ tasks' = tasks
            /\ (stream[t].pc = "yield_initial" /\ stream'[t].pc \notin {"yield_initial", "closed"})
                  => /\ stream'[t].pc = "yield_terminal"
                     /\ stream'[t].outcome = "ERRORED"
                     /\ tasks' = tasks]_vars

\* A POST /convert that arrived after shutdown(): answered with 500, its
\* task never handed to the pool.
C18_Witness ==
    \E t \in TaskIds :
        /\ surface[t] = "sync" /\ http[t].pc = "responded"
        /\ http[t].status = 500 /\ http[t].body = ShutdownText
        /\ worker[t] = IdleWorker /\ calls[t] = <<>> /\ t \notin tasks

\* C19: a body that has ended has left no temporary file behind.
C19_TempFileRemoved ==
    \A t \in TaskIds : worker[t].pc = "done" => ~worker[t].temp

BodyStarted(t) == worker[t].pc \in {"cb", "prepare", "engine", "done"}

Taken(t) == worker[t].pc \notin {"idle", "queued"}

\* C20 (as stated; in PoolSpec tasks are submitted in the order of their
\* ids): the body of a task does not start before the body of every task
\* submitted before it has started.
C20_BodiesStartInSubmissionOrder ==
    \A t, u \in TaskIds : (t < u /\ BodyStarted(u)) => BodyStarted(t)

\* C20 (amended): tasks wait in submission order and never more than
\* max_workers are off the queue and unfinished; a task is taken from the
\* queue only after every task submitted before it has been taken.
C20_TakenInSubmissionOrder ==
    /\ \A i, j \in 1..Len(executor.work_queue) :
          i < j => executor.work_queue[i] < executor.work_queue[j]
    /\ Cardinality(Busy) <= executor.max_workers
    /\ \A t, u \in TaskIds : (t < u /\ Taken(u)) => Taken(t)

\* Every slot is busy and a submitted task waits for one.
C20_Witness ==
    /\ Cardinality(Busy) = executor.max_workers
    /\ \E t, u \in TaskIds :
          /\ t < u /\ BodyStarted(t) /\ worker[t].pc # "done"
          /\ worker[u].pc = "queued"

\* C21: the step in which a task is submitted only queues it: the task
\* waits in the executor's queue with a pending future, has made no callback
\* and carries no result, and the submitting handler has gone on to its wait
\* (await result_future, or the first drain), whether or not a slot is free.
C21_SubmitReturnsAtOnce ==
    [][\A t \in TaskIds :
          (worker[t].pc = "idle" /\ worker'[t].pc # "idle")
             => /\ worker'[t] = [IdleWorker EXCEPT !.pc = "queued", !.task_id = t]
                /\ calls'[t] = <<>>
                /\ t \in tasks' /\ future'[t] = "pending"
                /\ executor'.work_queue = Append(executor.work_queue, t)
                /\ result_future'[t].state \in {"none", "pending"}
                /\ http'[t].pc = "await" \/ stream'[t].pc = "drain"]_vars

\* Every slot is busy, and a task submitted on top of that is queued while
\* its handler already waits for the outcome.
C21_Witness ==
    /\ Cardinality(Busy) = executor.max_workers
    /\ \E t \in TaskIds :
          /\ worker[t].pc = "queued" /\ calls[t] = <<>>
          /\ http[t].pc = "await" \/ stream[t].pc = "drain"

\* The event the callback of task t's surface builds for the logged call c.
EventOf(t, c) ==
    IF surface[t] = "mcp" THEN McpEventData(c.percentage, c.message)
    ELSE EventData(c.percentage, c.message)

TerminalOn(t, e) == IF surface[t] = "mcp" THEN McpIsTerminal(e) ELSE IsTerminal(e)

\* C22: with tasks in flight side by side, every callback made for a task
\* carries that task's id, a queue holds only events of its own task, and
\* each task gets its own terminal event: a POST /convert answer is the
\* message of the task's own terminal callback, and a task whose body ended
\* while its stream was registered and draining has its terminal event on
\* the stream's queue.
C22_EachTaskGetsOwnTerminalEvent ==
    \A t \in TaskIds :
        /\ \A i \in 1..Len(calls[t]) : calls[t][i].task_id = t
        /\ \A i \in 1..Len(queue[t]) :
              \E j \in 1..Len(calls[t]) : queue[t][i] = EventOf(t, calls[t][j])
        /\ (http[t].pc = "responded" /\ worker[t].pc = "done")
              => http[t].body = calls[t][Len(calls[t])].message
        /\ (worker[t].pc = "done" /\ stream[t].pc = "drain"
              /\ t \in active_connections)
              => \E i \in 1..Len(queue[t]) : TerminalOn(t, queue[t][i])

\* The same without the last clause: ids, queues and POST /convert answers.
C22_NoCrossTaskDelivery ==
    \A t \in TaskIds :
        /\ \A i \in 1..Len(calls[t]) : calls[t][i].task_id = t
        /\ \A i \in 1..Len(queue[t]) :
              \E j \in 1..Len(calls[t]) : queue[t][i] = EventOf(t, calls[t][j])
        /\ (http[t].pc = "responded" /\ worker[t].pc = "done")
              => http[t].body = calls[t][Len(calls[t])].message

\* C23: a request for pdf, docx, rst, latex or epub without an output file
\* is refused by every entry point before a task exists: no id, no work
\* item, no future, no registration and no callback.
C23_AdvancedFormatNeedsOutputFile ==
    \A t \in TaskIds :
        (/\ surface[t] # "none"
         /\ request[t].output_format \in advanced_formats
         /\ ~Truthy(request[t].output_file))
           => /\ http[t].pc = "responded" /\ http[t].status \in {422, 500}
              /\ http[t].body = ValidationText
              /\ worker[t] = IdleWorker /\ calls[t] = <<>>
              /\ future[t] = "none" /\ result_future[t].state = "none"
              /\ \A u \in TaskIds : worker[u].task_id # t
              /\ t \notin tasks /\ t \notin active_connections

\* A pdf request without output file answered with 422 while another
\* request's conversion is under way.
C23_Witness ==
    \E t, u \in TaskIds :
        /\ request[t] = NoOut /\ surface[t] = "sync" /\ http[t].status = 422
        /\ worker[u].pc = "engine"

\* C24: a request with neither contents nor input_file is refused with 422
\* and no task is made for it.
C24_ContentSourceRequired ==
    \A t \in TaskIds :
        (/\ surface[t] = "sync"
         /\ request[t].contents = None /\ request[t].input_file = None)
           => /\ http[t].pc = "responded" /\ http[t].status = 422
              /\ worker[t] = IdleWorker /\ calls[t] = <<>>

\* Tasks whose input_file is set and does not exist.
MissingInput == {t \in TaskIds : /\ Truthy(request[t].input_file)
                                 /\ ~path_exists(request[t].input_file)}

\* C25: a task whose input_file does not exist makes the callbacks 0, 25, -1
\* and no other, never calls the engine, and its -1 message names the file
\* that was not found.
C25_MissingInputSequence ==
    \A t \in MissingInput :
        /\ worker[t].engine_calls = 0
        /\ \E n \in 0..3 : Percentages(calls[t]) = SubSeq(<<0, 25, -1>>, 1, n)
        /\ worker[t].pc = "done"
              => /\ Percentages(calls[t]) = <<0, 25, -1>>
                 /\ calls[t][3].message = <<"Error: ">> \o NotFoundText(request[t])

\* The conversion mode decided by presence alone (a field is present when it
\* is not None).
PresentMode(req) ==
    IF req.input_file # None /\ req.output_file # None THEN "file_to_file"
    ELSE IF req.input_file # None THEN "file_to_string"
    ELSE IF req.contents # None /\ req.output_file # None THEN "string_to_file"
    ELSE "string_to_string"

\* C26: the conversion case a body runs is the one decided by the presence of
\* contents, input_file and output_file; a body that returned has written the
\* output file (its result is the saved-to message) exactly when that mode is
\* file->file or string->file, empty contents included.
C26_ModeByPresenceAlone ==
    \A t \in TaskIds :
        /\ (surface[t] # "none" /\ worker[t].pc # "idle")
              => Mode(request[t]) = PresentMode(request[t])
        /\ worker[t].outcome = "returned"
              => (PresentMode(request[t]) \in {"file_to_file", "string_to_file"}
                    <=> worker[t].result = SavedMessage(request[t]))

\* C27: within one task the engine is called at most once and only after the
\* 50 callback; the 75 callback is made only after the engine call returned;
\* a task whose engine call failed made the callbacks 0, 25, 50, -1 and
\* called the engine that one time.
C27_EngineOnceBetween50And75 ==
    \A t \in TaskIds :
        LET w == worker[t]
            P == Percentages(calls[t]) IN
        /\ w.engine_calls <= 1
        /\ w.engine_calls = 1 => \E i \in 1..Len(P) : P[i] = 50
        /\ w.pc = "engine" => P = <<0, 25, 50>> /\ w.engine_calls = 0
        /\ (\E i \in 1..Len(P) : P[i] = 75)
              => /\ w.engine_calls = 1 /\ w.exc # EngineErrorText
                 /\ w.result = ResultOf(request[t])
        /\ w.exc = EngineErrorText
              => /\ w.engine_calls = 1
                 /\ \E n \in 3..4 : P = SubSeq(<<0, 25, 50, -1>>, 1, n)
                 /\ w.pc = "done" => P = <<0, 25, 50, -1>>

\* A task that ended after a failed engine call, next to one whose engine
\* call returned and that went on to the 75 callback.
C27_Witness ==
    \E t, u \in TaskIds :
        /\ worker[t].pc = "done" /\ worker[t].exc = EngineErrorText
        /\ Percentages(calls[t]) = <<0, 25, 50, -1>>
        /\ worker[u].engine_calls = 1 /\ Percentages(calls[u]) = <<0, 25, 50, 75>>

McpTerminalEvents(em) == {i \in 1..Len(em) : McpIsTerminal(em[i])}

\* C28: on the protocol-wrapped stream the first event emitted has status
\* created; an emitted complete or error event is the last event emitted and
\* the generator then only finishes; a run that ends without a client
\* disconnect has emitted exactly one such event.
C28_McpOneTerminalEventLast ==
    \A t \in TaskIds : surface[t] = "mcp" =>
        LET em == stream[t].emitted
            term == McpTerminalEvents(em) IN
        /\ em # <<>> => em[1].status = "created"
        /\ Cardinality(term) <= 1
        /\ term # {} => /\ term = {Len(em)}
                        /\ stream[t].pc \in {"yield_terminal", "closed"}
        /\ (stream[t].pc = "closed" /\ stream[t].outcome # "DISCONNECTED")
              => Cardinality(term) = 1

\* A protocol-wrapped stream that ended after passing on a running event and
\* then the worker's complete event.
C28_Witness ==
    \E t \in TaskIds :
        /\ surface[t] = "mcp" /\ stream[t].pc = "closed"
        /\ stream[t].outcome = "COMPLETED"
        /\ Len(stream[t].emitted) = 3
        /\ stream[t].emitted[2].status = "running"
        /\ stream[t].emitted[3].status = "complete"

\* C29: a step of a progress-callback invocation (from the call to its
\* return or raise) leaves the set of registered ids as it is and leaves
\* every other task's queue as it is; the queue of its own id is unchanged
\* or has the invocation's event appended.
C29_CallbackKeepsRegistrations ==
    [][\A t \in TaskIds :
          (worker[t].pc = "cb" /\ worker'[t] # worker[t])
             => /\ active_connections' = active_connections
                /\ \A u \in TaskIds \ {worker[t].task_id} : queue'[u] = queue[u]
                /\ \/ queue'[t] = queue[t]
                   \/ queue'[t] = Append(queue[t], CurrentEvent(t))
                /\ stream' = stream]_vars

\* A callback invocation of one registered stream past its lookup while
\* another stream is registered too.
C29_Witness ==
    \E t, u \in TaskIds :
        /\ t # u /\ {t, u} \subseteq active_connections
        /\ worker[t].pc = "cb" /\ worker[t].cb = "loop"
        /\ stream[u].pc = "drain"

\* The submitted tasks whose entry WorkerPool.tasks should still hold: the
\* future is not done, or it was cancelled and its done-callback is still to
\* run.
Unsettled == {t \in TaskIds : future[t] \in {"pending", "cancelled"}}

\* C30 as stated, for any ids: every task whose future has not completed
\* has an entry, every entry is that of a task whose done-callback has not
\* run, and with no such task the map is empty.
C30_TasksHoldsPendingForAnyIds ==
    /\ \A t \in TaskIds : future[t] = "pending" => worker[t].task_id \in tasks
    /\ \A id \in tasks : \E t \in Unsettled : worker[t].task_id = id
    /\ Unsettled = {} => tasks = {}

\* No other submitted task was given the id of task t.
UniqueId(t) == \A u \in TaskIds \ {t} : worker[u].task_id # worker[t].task_id

\* C30 for ids that differ between submissions: a task with an id of its own
\* has an entry while its future has not completed and none once its
\* done-callback has run, whether it succeeded or failed; every entry
\* is that of a task whose done-callback has not run, and with no such task
\* the map is empty.
C30_TasksHoldsPendingForUniqueIds ==
    /\ \A t \in TaskIds :
          UniqueId(t) =>
             /\ future[t] = "pending" => worker[t].task_id \in tasks
             /\ future[t] \in {"finished", "failed"} => worker[t].task_id \notin tasks
    /\ \A id \in tasks : \E t \in Unsettled : worker[t].task_id = id
    /\ Unsettled = {} => tasks = {}

\* Two tasks submitted under ids of the caller's choice that differ: the one
\* whose done-callback has run has no entry, the one still running has.
C30_Witness ==
    \E t, u \in TaskIds :
        /\ worker[t].task_id # t /\ worker[u].task_id # worker[t].task_id
        /\ future[t] = "failed" /\ worker[t].task_id \notin tasks
        /\ future[u] = "pending" /\ worker[u].pc = "engine"
        /\ worker[u].task_id \in tasks

\* The drain timeouts a stream has gone through: on the plain stream each
\* one emits a heartbeat, on the protocol-wrapped stream the timeout error.
DrainTimeouts(t) ==
    IF surface[t] = "mcp"
    THEN Cardinality({i \in 1..Len(stream[t].emitted) :
                        stream[t].emitted[i] = McpTimeoutEvent})
    ELSE Heartbeats(stream[t].emitted)

\* C31: a stream whose loop is draining eventually has ended and is no
\* longer registered, whatever the worker delivers; a plain stream is still
\* draining only before its twentieth drain timeout, a protocol-wrapped one
\* only before its first.
C31_StreamLoopEnds ==
    /\ \A t \in TaskIds :
          (stream[t].pc = "drain")
             ~> (stream[t].pc = "closed" /\ t \notin active_connections)
    /\ [](\A t \in TaskIds :
             stream[t].pc = "drain"
                => DrainTimeouts(t) < (IF surface[t] = "mcp" THEN 1 ELSE 20))

\* A plain stream that ended at the ceiling with its task cancelled by a
\* shutdown and nothing delivered, deregistered.
C31_Witness ==
    \E t \in TaskIds :
        /\ surface[t] = "plain" /\ stream[t].pc = "closed"
        /\ stream[t].outcome = "TIMED_OUT" /\ DrainTimeouts(t) = 20
        /\ future[t] = "cancelled" /\ t \notin active_connections

============================================================================
